---- MODULE Spec2Model ----
(***************************************************************************)
(* Read-only Supabase MCP server: the JSON-RPC STDIO dispatcher            *)
(* (src/index.js 1-208) and the HTTP REST transport (src/index.js          *)
(* 210-350).  The two transports are two entry points; a run of the model   *)
(* is a run of one of them (variable mode).                                 *)
(*                                                                          *)
(* Text is modelled as a sequence of tokens: a newline, a whitespace        *)
(* character, or the head or the tail half of the text of one JSON          *)
(* message, so that a chunk boundary can fall inside a message.  A number   *)
(* that JavaScript may hold as NaN is a record [nan, n].  An error message  *)
(* built by a template string is the sequence of its parts.                 *)
(***************************************************************************)
EXTENDS Integers, Sequences, FiniteSets, Bags, TLC

(* ------------------------------ bounds -------------------------------- *)

\* lines of a stdin script / requests of an HTTP script in the concurrent scenarios
MaxLines == 2
\* handlers suspended on the backing client at one time
MaxInFlight == 2
\* rows of the table in the pagination scenarios
MaxRows == 25
\* largest small raw limit/page value tried (besides the default-sized 10)
MaxRaw == 3

(* --------------------------- JSON messages ---------------------------- *)

ABSENT == "<absent>"
NullId == "null"

\* raw limit / page input: a property that is absent, a text without a
\* leading integer ("abc"), an integer n (number n or text "n"), a text with
\* a leading integer ("3abc"), a number with a fraction (n + 0.7)
Raw(k, n) == [k |-> k, n |-> n]
RawAbsent == Raw("absent", 0)
RawText == Raw("text", 0)
RawInts == {Raw("int", n) : n \in ((0 - 2)..MaxRaw) \cup {10}}
RawInputs == {RawAbsent, RawText, Raw("prefix", 3), Raw("frac", 2)} \cup RawInts

Params(given, tn, l, p) == [given |-> given, table_name |-> tn, limit |-> l, page |-> p]
NoParams == Params("absent", ABSENT, RawAbsent, RawAbsent)

Message(text, ver, id, method, hasResult, params) ==
  [text |-> text, jsonrpc |-> ver, id |-> id, method |-> method,
   hasResult |-> hasResult, params |-> params]
NoMsg == Message("none", ABSENT, ABSENT, ABSENT, FALSE, NoParams)
\* a line that JSON.parse rejects
Garbage == Message("invalid", ABSENT, ABSENT, ABSENT, FALSE, NoParams)
Request(id, method, params) == Message("object", "2.0", id, method, FALSE, params)

(* ------------------------------- text --------------------------------- *)

NL == [t |-> "nl", m |-> NoMsg]
SP == [t |-> "sp", m |-> NoMsg]
HeadOf(m) == [t |-> "h", m |-> m]
TailOf(m) == [t |-> "t", m |-> m]

\* the text of one input line carrying message m (a blank line is whitespace)
LineText(m) == IF m.text = "blank" THEN <<SP>> ELSE <<HeadOf(m), TailOf(m)>>

RECURSIVE StreamText(_)
StreamText(msgs) ==
  IF msgs = <<>> THEN <<>>
  ELSE LineText(msgs[1]) \o <<NL>> \o StreamText(SubSeq(msgs, 2, Len(msgs)))

\* String.prototype.split('\n'): one more element than there are newlines
RECURSIVE SplitFrom(_, _, _)
SplitFrom(s, k, cur) ==
  IF k > Len(s) THEN <<cur>>
  ELSE IF s[k].t = "nl" THEN <<cur>> \o SplitFrom(s, k + 1, <<>>)
  ELSE SplitFrom(s, k + 1, Append(cur, s[k]))
Split(s) == SplitFrom(s, 1, <<>>)

\* String.prototype.trim(): whitespace removed at both ends
RECURSIVE TrimLeft(_)
TrimLeft(s) ==
  IF s # <<>> /\ s[1].t = "sp" THEN TrimLeft(SubSeq(s, 2, Len(s))) ELSE s
RECURSIVE TrimRight(_)
TrimRight(s) ==
  IF s # <<>> /\ s[Len(s)].t = "sp" THEN TrimRight(SubSeq(s, 1, Len(s) - 1)) ELSE s
Trim(s) == TrimRight(TrimLeft(s))

\* JSON.parse of a line: the two halves of one message, in order, are that
\* message; any other text is not JSON
JSONparse(line) ==
  IF /\ Len(line) = 2
     /\ line[1].t = "h" /\ line[2].t = "t"
     /\ line[1].m = line[2].m
  THEN line[1].m
  ELSE Garbage

(* ------------------------- jsonrpc-lite values ------------------------ *)

\* a thrown or reported message: the parts of its template string
Text(s) == <<s>>

ParseErrorCode == 0 - 32700
InvalidRequestCode == 0 - 32600
MethodNotFoundCode == 0 - 32601
InternalErrorCode == 0 - 32603

NoPagination == [total |-> 0, page |-> 0, limit |-> 0, pages |-> 0]
NoResult ==
  [k |-> "none", tools |-> <<>>, tables |-> <<>>, rows |-> <<>>,
   pagination |-> NoPagination, text |-> "", params |-> NoParams]

\* jsonrpc.error(id, new JsonRpcError(message, code, data))
jsonrpc_error(id, code, message, data) ==
  [jsonrpc |-> "2.0", id |-> id, type |-> "error", code |-> code,
   message |-> message, data |-> data, result |-> NoResult]
\* jsonrpc.success(id, result)
jsonrpc_success(id, result) ==
  [jsonrpc |-> "2.0", id |-> id, type |-> "success", code |-> 0,
   message |-> "", data |-> <<>>, result |-> result]

invalidRequest(id, data) == jsonrpc_error(id, InvalidRequestCode, "Invalid request", data)
methodNotFound(id, data) == jsonrpc_error(id, MethodNotFoundCode, "Method not found", data)
internalError(id, data) == jsonrpc_error(id, InternalErrorCode, "Internal error", data)
parseError(id, data) == jsonrpc_error(id, ParseErrorCode, "Parse error", data)

\* an id jsonrpc-lite accepts in a request: a string or an integer
ValidIds == {"1", "2", "3", "\"a\""}
IsValidId(id) == id \in ValidIds
\* a method jsonrpc-lite accepts: a non-empty string
IsValidMethod(method) == method # ABSENT /\ method # ""
\* params jsonrpc-lite accepts: undefined, an object or an array
IsValidParams(params) == params.given \in {"absent", "object"}

Parsed(type, message, payload) == [type |-> type, message |-> message, payload |-> payload]

\* jsonrpc.parse(message).  It never throws: text that is not JSON comes back
\* as type 'invalid' with a JsonRpcError.parseError payload; a batch comes
\* back as an array, which has no type.
jsonrpc_parse(line) ==
  LET obj == JSONparse(line) IN
  IF obj.text = "invalid" THEN Parsed("invalid", "Parse error", NoMsg)
  ELSE IF obj.text = "array" THEN Parsed("array", "", NoMsg)
  ELSE IF obj.text # "object" \/ obj.jsonrpc # "2.0"
    THEN Parsed("invalid", "Invalid request", NoMsg)
  ELSE IF obj.id = ABSENT THEN
    IF IsValidMethod(obj.method) /\ IsValidParams(obj.params)
    THEN Parsed("notification", "", obj)
    ELSE Parsed("invalid", IF IsValidMethod(obj.method) THEN "Invalid params"
                           ELSE "Invalid request", NoMsg)
  ELSE IF obj.method # ABSENT THEN
    IF ~IsValidId(obj.id) THEN Parsed("invalid", "Internal error", NoMsg)
    ELSE IF ~IsValidMethod(obj.method) THEN Parsed("invalid", "Invalid request", NoMsg)
    ELSE IF ~IsValidParams(obj.params) THEN Parsed("invalid", "Invalid params", NoMsg)
    ELSE Parsed("request", "", obj)
  ELSE IF obj.hasResult THEN
    IF IsValidId(obj.id) THEN Parsed("success", "", obj)
    ELSE Parsed("invalid", "Internal error", NoMsg)
  ELSE Parsed("invalid", "Invalid request", NoMsg)

(* ----------------------------- pagination ----------------------------- *)

Num(n) == [nan |-> FALSE, n |-> n]
NaN == [nan |-> TRUE, n |-> 0]

\* parseInt(x): the leading integer of String(x), NaN when there is none
parseInt(raw) ==
  IF raw.k \in {"absent", "text"} THEN NaN ELSE Num(raw.n)

\* a || d for a number a: NaN and 0 are falsy
OrDefault(a, d) == IF a.nan \/ a.n = 0 THEN d ELSE a.n

DefaultLimit == 10
DefaultPage == 0

\* a slip: Math.floor for Math.ceil
MathFloorDiv(count, limit) ==
  IF limit > 0 THEN count \div limit
  ELSE 0 - ((0 - count) \div (0 - limit))

\* Math.ceil(count / limit), limit # 0
MathCeilDiv(count, limit) ==
  IF limit > 0 THEN 0 - ((0 - count) \div limit)
  ELSE 0 - (count \div (0 - limit))

(* --------------------------- backing client --------------------------- *)

\* the tables of the public schema; table "users" holds the rows 1..total
PublicTables == {"users"}

Call(op, table, from, to, count) ==
  [op |-> op, table |-> table, from |-> from, to |-> to, count |-> count]
NoCall == Call("none", ABSENT, 0, 0, "none")

\* what .single() on the information_schema query can answer
ExistsOutcomes(table) ==
  IF table \in PublicTables THEN {"found", "error"} ELSE {"norows", "error"}

\* what the ranged select can answer; a range that is empty or negative is
\* refused by the service
FetchOutcomes(call) ==
  IF call.from >= 0 /\ call.to >= call.from THEN {"ok", "error"} ELSE {"error"}

Min(a, b) == IF a < b THEN a ELSE b

\* the rows of the inclusive range [from, to] of a table of total rows
RangeRows(total, from, to) ==
  [k \in 1..(IF Min(to + 1, total) > from THEN Min(to + 1, total) - from ELSE 0)
     |-> from + k]

\* the messages of the errors the backing client reports
UpstreamMessage(op, outcome) ==
  IF outcome = "norows" THEN "JSON object requested, multiple (or no) rows returned"
  ELSE IF op = "fetch" THEN "range not satisfiable"
  ELSE "fetch failed"

(* ------------------------------- state -------------------------------- *)

VARIABLES
  mode,         \* "stdio" or "http": which entry point this process runs
  supabase,     \* TRUE when createClient ran (URL and key were set)
  total,        \* rows of table "users" in the backing database
  exited,       \* "running", "exit0" or "exit1"
  script,       \* the text the client writes to stdin / the requests it sends
  pos,          \* how much of script has been delivered
  inputBuffer,  \* let inputBuffer
  handlers,     \* invocations of a handler suspended at a backing-client await
  stdout,       \* everything written to standard output
  stderr,       \* everything written to standard error
  invoked,      \* history: the lines handleJsonRpc was called with
  served,       \* history: each line with the response written for it
  clientCalls,  \* history: the calls issued to the backing client
  httpOut       \* the HTTP responses sent, each with its request

vars == <<mode, supabase, total, exited, script, pos, inputBuffer, handlers,
          stdout, stderr, invoked, served, clientCalls, httpOut>>

(* --------------------------- JSON-RPC methods ------------------------- *)

ToolDescriptor(name, required) == [name |-> name, required |-> required]
tools ==
  << ToolDescriptor("list_tables", <<"project_id">>),
     ToolDescriptor("get_table_data", <<"project_id", "table_name">>) >>

NotInitialized ==
  Text("Supabase client not initialized. Please set SUPABASE_URL and SUPABASE_ANON_KEY environment variables.")

NoResp == [jsonrpc |-> "2.0", id |-> NullId, type |-> "none", code |-> 0,
           message |-> "", data |-> <<>>, result |-> NoResult]

\* where a method stands: returned (resp is the response handleJsonRpc
\* builds from its return value or its exception) or awaiting call
Returned(resp) ==
  [done |-> TRUE, resp |-> resp, call |-> NoCall, limit |-> 0, page |-> 0, ran |-> "none"]
Awaiting(call, limit, page) ==
  [done |-> FALSE, resp |-> NoResp, call |-> call, limit |-> limit, page |-> page,
   ran |-> "none"]
\* history: st is where methods[method](...) stands after it was called
Ran(method, st) == [st EXCEPT !.ran = method]

\* methods[method] on the plain object: its own three properties, and what
\* it inherits from Object.prototype
OwnMethods == {"listTools", "list_tables", "get_table_data"}
InheritedFunctions == {"toString", "constructor"}
InheritedObjects == {"__proto__"}
methodsLookup(method) ==
  IF method \in OwnMethods THEN "own"
  ELSE IF method \in InheritedFunctions THEN "inheritedFunction"
  ELSE IF method \in InheritedObjects THEN "inheritedObject"
  ELSE "undefined"

\* a slip: listTools guarded by the client check of the other methods
listTools_NeedsClient(id) ==
  IF ~supabase THEN Returned(internalError(id, NotInitialized))
  ELSE Returned(jsonrpc_success(id, [NoResult EXCEPT !.k = "tools", !.tools = tools]))

listTools(id) == Returned(jsonrpc_success(id, [NoResult EXCEPT !.k = "tools", !.tools = tools]))

list_tables(id, params) ==
  IF ~supabase THEN Returned(internalError(id, NotInitialized))
  ELSE Awaiting(Call("list", "information_schema.tables", 0, 0, "none"), 0, 0)

\* a slip: the failure is reported without the id of the request
list_tables_resume_NullId(id, outcome) ==
  IF outcome = "ok"
  THEN Returned(jsonrpc_success(id, [NoResult EXCEPT !.k = "tables",
         !.tables = <<[schema |-> "public", name |-> "users"]>>]))
  ELSE Returned(internalError(NullId,
         <<"Error listing tables: ", UpstreamMessage("list", outcome)>>))

list_tables_resume(id, outcome) ==
  IF outcome = "ok"
  THEN Returned(jsonrpc_success(id, [NoResult EXCEPT !.k = "tables",
         !.tables = <<[schema |-> "public", name |-> "users"]>>]))
  ELSE Returned(internalError(id,
         <<"Error listing tables: ", UpstreamMessage("list", outcome)>>))

get_table_data(id, params) ==
  LET limit == OrDefault(parseInt(params.limit), DefaultLimit)
      page == OrDefault(parseInt(params.page), DefaultPage)
  IN IF ~supabase THEN Returned(internalError(id, NotInitialized))
     ELSE Awaiting(Call("exists", params.table_name, 0, 0, "none"), limit, page)

FetchError(table, cause) == <<"Error fetching data from table ", table, ": ">> \o cause

\* a slip: the range ends one row late
get_table_data_resume_OffByOne(id, call, limit, page, outcome) ==
  LET offset == page * limit IN
  IF call.op = "exists" THEN
    IF outcome = "found"
    THEN Awaiting(Call("fetch", call.table, offset, offset + limit, "exact"), limit, page)
    ELSE Returned(internalError(id,
           FetchError(call.table, <<"Table '", call.table, "' not found">>)))
  ELSE
    IF outcome = "ok"
    THEN Returned(jsonrpc_success(id, [NoResult EXCEPT !.k = "page",
           !.rows = RangeRows(total, call.from, call.to),
           !.pagination = [total |-> total, page |-> page, limit |-> limit,
                           pages |-> MathCeilDiv(total, limit)]]))
    ELSE Returned(internalError(id,
           FetchError(call.table, Text(UpstreamMessage("fetch", outcome)))))

get_table_data_resume(id, call, limit, page, outcome) ==
  LET offset == page * limit IN
  IF call.op = "exists" THEN
    IF outcome = "found"
    THEN Awaiting(Call("fetch", call.table, offset, offset + limit - 1, "exact"), limit, page)
    ELSE Returned(internalError(id,
           FetchError(call.table, <<"Table '", call.table, "' not found">>)))
  ELSE
    IF outcome = "ok"
    THEN Returned(jsonrpc_success(id, [NoResult EXCEPT !.k = "page",
           !.rows = RangeRows(total, call.from, call.to),
           !.pagination = [total |-> total, page |-> page, limit |-> limit,
                           pages |-> MathCeilDiv(total, limit)]]))
    ELSE Returned(internalError(id,
           FetchError(call.table, Text(UpstreamMessage("fetch", outcome)))))

\* handleJsonRpc from the destructuring of the payload on, up to the first
\* await on the backing client
dispatch(payload) ==
  LET id == payload.id
      params == IF payload.params.given = "absent" THEN NoParams ELSE payload.params
      found == methodsLookup(payload.method)
  IN
  IF found = "undefined"
    THEN Returned(methodNotFound(id, <<"Method '", payload.method, "' not found">>))
  ELSE IF found = "inheritedObject"
    THEN Returned(internalError(id, Text("methods[method] is not a function")))
  ELSE IF payload.method = "toString"
    THEN Ran("toString", Returned(jsonrpc_success(id,
           [NoResult EXCEPT !.k = "text", !.text = "[object Object]"])))
  ELSE IF payload.method = "constructor"
    THEN Ran("constructor", Returned(jsonrpc_success(id,
           [NoResult EXCEPT !.k = "params", !.params = params])))
  ELSE IF payload.method = "listTools" THEN Ran("listTools", listTools(id))
  ELSE IF payload.method = "list_tables" THEN Ran("list_tables", list_tables(id, params))
  ELSE Ran("get_table_data", get_table_data(id, params))

\* a slip: the check that the message is a request is left out
handleJsonRpc_AnyType(line) ==
  LET parsed == jsonrpc_parse(line) IN
  IF parsed.type = "invalid" THEN Returned(invalidRequest(NullId, Text(parsed.message)))
  ELSE dispatch(IF parsed.type = "array" THEN Request("1", "listTools", NoParams)
                ELSE parsed.payload)

\* handleJsonRpc(message) up to its first await on the backing client
handleJsonRpc(line) ==
  LET parsed == jsonrpc_parse(line) IN
  IF parsed.type = "invalid" THEN Returned(invalidRequest(NullId, Text(parsed.message)))
  ELSE IF parsed.type # "request"
    THEN Returned(invalidRequest(NullId, Text("Expected a JSON-RPC request")))
  ELSE dispatch(parsed.payload)

\* handleJsonRpc resumed when the backing client answers
handleJsonRpc_resume(h, outcome) ==
  IF h.req.method = "list_tables" THEN list_tables_resume(h.req.id, outcome)
  ELSE get_table_data_resume(h.req.id, h.call, h.limit, h.page, outcome)

(* -------------------------- STDIO dispatcher -------------------------- *)

\* one run of the 'data' callback waiting at its await (line 185): chunk
\* is the part of the input that this run was called with, answers what the
\* backing client has answered to this call of the method so far
Chunk(from, to) == [from |-> from, to |-> to]
Handler(chunk, lines, i, line, req, st) ==
  [chunk |-> chunk, lines |-> lines, i |-> i, line |-> line, req |-> req,
   call |-> st.call, limit |-> st.limit, page |-> st.page, answers |-> <<>>]

Out(t, v) == [t |-> t, v |-> v, text |-> ""]
LogLine(text) == <<[t |-> "text", v |-> NoResp, text |-> text], Out("nl", NoResp)>>

\* a slip: the response is written without its newline
WriteResponse_NoNewline(w, line, resp, ran) ==
  [w EXCEPT !.stdout = @ \o <<Out("json", resp)>>,
            !.served = Append(@, [line |-> line, resp |-> resp, ran |-> ran,
                                  answers |-> <<>>])]

\* process.stdout.write(JSON.stringify(response) + '\n')
WriteResponse(w, line, resp, ran) ==
  [w EXCEPT !.stdout = @ \o <<Out("json", resp), Out("nl", NoResp)>>,
            !.served = Append(@, [line |-> line, resp |-> resp, ran |-> ran,
                                  answers |-> <<>>])]

\* the response just written came after these answers of the backing client
Answered(w, answers) == [w EXCEPT !.served[Len(w.served)].answers = answers]

IssueCall(w, line, call) ==
  [w EXCEPT !.clientCalls = Append(@, [by |-> line, call |-> call])]

\* a slip: the loop goes on to the next line without waiting for the call
RECURSIVE RunLines_NoAwait(_, _, _)
RunLines_NoAwait(lines, i, w) ==
  IF i > Len(lines) - 1 THEN [w EXCEPT !.inputBuffer = lines[Len(lines)]]
  ELSE
    LET line == Trim(lines[i]) IN
    IF line = <<>> THEN RunLines_NoAwait(lines, i + 1, w)
    ELSE
      LET st == handleJsonRpc(line)
          w1 == [w EXCEPT !.invoked = Append(@, line)]
      IN IF st.done
         THEN RunLines_NoAwait(lines, i + 1, WriteResponse(w1, line, st.resp, st.ran))
         ELSE RunLines_NoAwait(lines, i + 1, IssueCall([w1 EXCEPT !.handlers =
                Append(@, Handler(w.chunk, lines, i, line, JSONparse(line), st))],
                line, st.call))

\* the for loop of the 'data' callback from line i on, up to the first
\* await that waits on the backing client, or to its end.  An await that
\* resolves without input or output (a rejected line, listTools, a method
\* that throws at once) only yields to the microtask queue: no other stdin
\* event runs before the loop goes on, so those lines are part of the same
\* step.  handleJsonRpc catches everything it runs, so the catch of the
\* callback (190-193) is not entered.
RECURSIVE RunLines(_, _, _)
RunLines(lines, i, w) ==
  IF i > Len(lines) - 1 THEN [w EXCEPT !.inputBuffer = lines[Len(lines)]]
  ELSE
    LET line == Trim(lines[i]) IN
    IF line = <<>> THEN RunLines(lines, i + 1, w)
    ELSE
      LET st == handleJsonRpc(line)
          w1 == [w EXCEPT !.invoked = Append(@, line)]
      IN IF st.done THEN RunLines(lines, i + 1, WriteResponse(w1, line, st.resp, st.ran))
         ELSE IssueCall([w1 EXCEPT !.handlers =
                Append(@, Handler(w.chunk, lines, i, line, JSONparse(line), st))], line, st.call)

World ==
  [inputBuffer |-> inputBuffer, handlers |-> handlers, stdout |-> stdout,
   invoked |-> invoked, served |-> served, clientCalls |-> clientCalls,
   chunk |-> Chunk(pos, pos)]

Commit(w) ==
  /\ inputBuffer' = w.inputBuffer
  /\ handlers' = w.handlers
  /\ stdout' = w.stdout
  /\ invoked' = w.invoked
  /\ served' = w.served
  /\ clientCalls' = w.clientCalls

Remove(seq, k) == SubSeq(seq, 1, k - 1) \o SubSeq(seq, k + 1, Len(seq))

\* process.stdin.on('data'): a chunk of n characters arrives
StdinData(n) ==
  /\ mode = "stdio" /\ exited = "running"
  /\ pos + n <= Len(script)
  /\ Len(handlers) < MaxInFlight
  /\ LET chunk == SubSeq(script, pos + 1, pos + n)
         w == [World EXCEPT !.inputBuffer = @ \o chunk, !.chunk = Chunk(pos, pos + n)]
     IN Commit(RunLines(Split(w.inputBuffer), 1, w))
  /\ pos' = pos + n
  /\ UNCHANGED <<mode, supabase, total, exited, script, stderr, httpOut>>

Outcomes(call) ==
  IF call.op = "exists" THEN ExistsOutcomes(call.table)
  ELSE IF call.op = "fetch" THEN FetchOutcomes(call)
  ELSE {"ok", "error"}

\* the backing client answers the call handler k waits on; the 'data'
\* callback goes on from there
StdinResume(k, outcome) ==
  /\ mode = "stdio" /\ exited = "running"
  /\ k \in 1..Len(handlers)
  /\ outcome \in Outcomes(handlers[k].call)
  /\ LET h == handlers[k]
         st == handleJsonRpc_resume(h, outcome)
     IN IF st.done
        THEN Commit(RunLines(h.lines, h.i + 1,
               Answered(WriteResponse([World EXCEPT !.handlers = Remove(@, k), !.chunk = h.chunk],
                                      h.line, st.resp, h.req.method),
                        Append(h.answers, outcome))))
        ELSE Commit(IssueCall([World EXCEPT !.handlers[k].call = st.call,
                                            !.handlers[k].answers = Append(@, outcome)],
                              h.line, st.call))
  /\ UNCHANGED <<mode, supabase, total, exited, script, pos, stderr, httpOut>>

\* process.stdin.on('end'): process.exit(0)
StdinEnd ==
  /\ mode = "stdio" /\ exited = "running"
  /\ pos = Len(script)
  /\ exited' = "exit0"
  /\ UNCHANGED <<mode, supabase, total, script, pos, inputBuffer, handlers,
                 stdout, stderr, invoked, served, clientCalls, httpOut>>

(* --------------------------- HTTP transport --------------------------- *)

HttpReq(route, tableName, l, p, body) ==
  [route |-> route, tableName |-> tableName, limit |-> l, page |-> p, body |-> body]
Get(route) == HttpReq(route, ABSENT, RawAbsent, RawAbsent, "none")
GetData(tableName, l, p) == HttpReq("/api/data/:projectId/:tableName", tableName, l, p, "none")

\* formatResponse(success, data, message, statusCode)
formatResponse(success, data, message) ==
  [shape |-> "envelope", success |-> success, data |-> data, message |-> message,
   timestamp |-> "toISOString"]
\* the body the error-handling middleware sends
middlewareError(message) ==
  [shape |-> "status", success |-> FALSE, data |-> NoResult, message |-> message,
   timestamp |-> ""]

HttpHandler(req, call, limit, page) ==
  [req |-> req, call |-> call, limit |-> limit, page |-> page, answers |-> <<>>]

\* res.status(status).json(body), sent after these answers of the backing client
Reply(req, status, body, answers) ==
  [req |-> req, status |-> status, body |-> body, answers |-> answers]

\* a slip: the answer of the existence check is not looked at
data_route_resume_Unchecked(h, outcome) ==
  LET offset == h.page * h.limit IN
  IF h.call.op = "exists" THEN
    [done |-> FALSE, status |-> 0, body |-> formatResponse(FALSE, NoResult, <<>>),
     call |-> Call("fetch", h.call.table, offset, offset + h.limit - 1, "exact")]
  ELSE
    IF outcome = "ok"
    THEN [done |-> TRUE, status |-> 200,
          body |-> formatResponse(TRUE, [NoResult EXCEPT !.k = "page",
                     !.rows = RangeRows(total, h.call.from, h.call.to),
                     !.pagination = [total |-> total, page |-> h.page, limit |-> h.limit,
                                     pages |-> MathCeilDiv(total, h.limit)]], <<>>),
          call |-> NoCall]
    ELSE [done |-> TRUE, status |-> 500,
          body |-> formatResponse(FALSE, NoResult, Text(UpstreamMessage("fetch", outcome))),
          call |-> NoCall]

\* app.get('/api/data/:projectId/:tableName') resumed when the backing
\* client answers; a reply, or the next call
data_route_resume(h, outcome) ==
  LET offset == h.page * h.limit IN
  IF h.call.op = "exists" THEN
    IF outcome = "found"
    THEN [done |-> FALSE, status |-> 0, body |-> formatResponse(FALSE, NoResult, <<>>),
          call |-> Call("fetch", h.call.table, offset, offset + h.limit - 1, "exact")]
    ELSE [done |-> TRUE, status |-> 404,
          body |-> formatResponse(FALSE, NoResult, <<"Table '", h.call.table, "' not found">>),
          call |-> NoCall]
  ELSE
    IF outcome = "ok"
    THEN [done |-> TRUE, status |-> 200,
          body |-> formatResponse(TRUE, [NoResult EXCEPT !.k = "page",
                     !.rows = RangeRows(total, h.call.from, h.call.to),
                     !.pagination = [total |-> total, page |-> h.page, limit |-> h.limit,
                                     pages |-> MathCeilDiv(total, h.limit)]], <<>>),
          call |-> NoCall]
    ELSE [done |-> TRUE, status |-> 500,
          body |-> formatResponse(FALSE, NoResult, Text(UpstreamMessage("fetch", outcome))),
          call |-> NoCall]

\* app.get('/api/tables/:projectId') resumed
tables_route_resume(h, outcome) ==
  IF outcome = "ok"
  THEN [done |-> TRUE, status |-> 200,
        body |-> formatResponse(TRUE, [NoResult EXCEPT !.k = "tables",
                   !.tables = <<[schema |-> "public", name |-> "users"]>>], <<>>),
        call |-> NoCall]
  ELSE [done |-> TRUE, status |-> 500,
        body |-> formatResponse(FALSE, NoResult, Text(UpstreamMessage("list", outcome))),
        call |-> NoCall]

RequestLog(req) == LogLine(req.route)

\* a request arrives and runs through the middleware and its route up to
\* the reply or the first await
HttpRequest ==
  /\ mode = "http" /\ exited = "running"
  /\ pos < Len(script)
  /\ Len(handlers) < MaxInFlight
  /\ LET req == script[pos + 1] IN
     /\ pos' = pos + 1
     /\ IF req.body = "malformed" THEN
          \* express.json() fails before the request log and the routes
          /\ httpOut' = Append(httpOut, Reply(req, 500, middlewareError(Text("Unexpected token")), <<>>))
          /\ stderr' = stderr \o LogLine("Server error:")
          /\ UNCHANGED <<handlers, clientCalls, stdout>>
        ELSE
          /\ stdout' = stdout \o RequestLog(req)
          /\ stderr' = stderr
          /\ IF req.route = "/" THEN
               /\ httpOut' = Append(httpOut, Reply(req, 200,
                    formatResponse(TRUE, NoResult, Text("Supabase Read-Only MCP Server")), <<>>))
               /\ UNCHANGED <<handlers, clientCalls>>
             ELSE IF req.route = "/api/tables/:projectId" THEN
               LET call == Call("list", "information_schema.tables", 0, 0, "none") IN
               /\ handlers' = Append(handlers, HttpHandler(req, call, 0, 0))
               /\ clientCalls' = Append(clientCalls, [by |-> req, call |-> call])
               /\ UNCHANGED httpOut
             ELSE IF req.route = "/api/data/:projectId/:tableName" /\ req.tableName # "" THEN
               \* a path whose last segment is empty does not match the route
               LET limit == OrDefault(parseInt(req.limit), DefaultLimit)
                   page == OrDefault(parseInt(req.page), DefaultPage)
                   call == Call("exists", req.tableName, 0, 0, "none")
               IN
               /\ handlers' = Append(handlers, HttpHandler(req, call, limit, page))
               /\ clientCalls' = Append(clientCalls, [by |-> req, call |-> call])
               /\ UNCHANGED httpOut
             ELSE
               /\ httpOut' = Append(httpOut, Reply(req, 404,
                    formatResponse(FALSE, NoResult, Text("Endpoint not found")), <<>>))
               /\ UNCHANGED <<handlers, clientCalls>>
  /\ UNCHANGED <<mode, supabase, total, exited, script, inputBuffer, invoked, served>>

\* the backing client answers the call route handler k waits on
HttpResume(k, outcome) ==
  /\ mode = "http" /\ exited = "running"
  /\ k \in 1..Len(handlers)
  /\ outcome \in Outcomes(handlers[k].call)
  /\ LET h == handlers[k]
         st == IF h.req.route = "/api/tables/:projectId" THEN tables_route_resume(h, outcome)
               ELSE data_route_resume(h, outcome)
     IN IF st.done
        THEN /\ handlers' = Remove(handlers, k)
             /\ httpOut' = Append(httpOut, Reply(h.req, st.status, st.body,
                                                 Append(h.answers, outcome)))
             /\ stderr' = IF st.status = 500 THEN stderr \o LogLine("Error") ELSE stderr
             /\ UNCHANGED clientCalls
        ELSE /\ handlers' = [handlers EXCEPT ![k].call = st.call,
                                             ![k].answers = Append(@, outcome)]
             /\ clientCalls' = Append(clientCalls, [by |-> h.req, call |-> st.call])
             /\ UNCHANGED <<httpOut, stderr>>
  /\ UNCHANGED <<mode, supabase, total, exited, script, pos, inputBuffer, stdout,
                 invoked, served>>

(* ------------------------------ scenarios ----------------------------- *)

BadLine == Message("invalid", ABSENT, ABSENT, ABSENT, FALSE, NoParams)
BlankLine == Message("blank", ABSENT, ABSENT, ABSENT, FALSE, NoParams)
TableParams(tn, l, p) == Params("object", tn, l, p)

\* the lines of the scripts of several lines
SmallMsgs ==
  { BadLine, BlankLine,
    Request("1", "listTools", NoParams),
    Request("2", "list_tables", NoParams) }

\* the lines of the scripts of one line: every envelope ...
Envelopes ==
  { Message(text, ABSENT, ABSENT, ABSENT, FALSE, NoParams) :
      text \in {"invalid", "blank", "null", "scalar", "array", "emptyarray"} }
  \cup
  { Message("object", ver, id, method, hasResult, params) :
      ver \in {"2.0", "1.0", ABSENT},
      id \in {ABSENT, NullId, "1.5", "1", "\"a\""},
      method \in {ABSENT, "", "foo"} \cup OwnMethods \cup InheritedFunctions \cup InheritedObjects,
      hasResult \in BOOLEAN,
      params \in {NoParams, Params("scalar", ABSENT, RawAbsent, RawAbsent),
                  TableParams("users", RawAbsent, RawAbsent)} }
\* ... and every request for a page of a table
TableRequests(tables) ==
  { Request("3", "get_table_data", TableParams(tn, l, p)) :
      tn \in tables, l \in RawInputs, p \in RawInputs }

\* the requests of the HTTP scripts of several requests
SmallReqs ==
  { Get("/"), Get("/api/tables/:projectId"), Get("/nowhere"),
    GetData("users", RawAbsent, RawAbsent),
    GetData("nosuch", Raw("int", 3), Raw("int", 0)),
    GetData("", RawAbsent, RawAbsent),
    HttpReq("/", ABSENT, RawAbsent, RawAbsent, "malformed") }
PageReqs(tables) ==
  { GetData(tn, l, p) : tn \in tables, l \in RawInputs, p \in RawInputs }

\* three scripts of the STDIO client with calls of the backing client on
\* several lines: two list_tables and a listTools, a page of a table and a
\* blank line, a page of no table and a listTools
LongScripts ==
  { <<Request("2", "list_tables", NoParams), Request("3", "list_tables", NoParams),
      Request("1", "listTools", NoParams)>>,
    <<Request("3", "get_table_data", TableParams("users", RawAbsent, RawAbsent)), BlankLine>>,
    <<Request("3", "get_table_data", TableParams("nosuch", RawAbsent, RawAbsent)),
      Request("1", "listTools", NoParams)>> }

SeqsUpTo(S, n) == UNION {[1..k -> S] : k \in 0..n}

StartupLog ==
  LogLine("Supabase MCP STDIO daemon initialized")
  \o (IF supabase THEN LogLine("Connected to Supabase URL")
      ELSE LogLine("WARNING: No Supabase credentials provided"))

Blank ==
  /\ pos = 0
  /\ inputBuffer = <<>>
  /\ handlers = <<>>
  /\ invoked = <<>>
  /\ served = <<>>
  /\ clientCalls = <<>>
  /\ httpOut = <<>>

\* node index.js as the STDIO daemon, and what the client will write
InitStdio ==
  /\ mode = "stdio"
  /\ supabase \in BOOLEAN
  /\ \/ /\ total = MaxRows
        /\ \E msgs \in SeqsUpTo(SmallMsgs, MaxLines) : script = StreamText(msgs)
     \/ /\ total = MaxRows
        /\ \E m \in Envelopes \cup TableRequests({"nosuch", ABSENT}) :
             script = StreamText(<<m>>)
     \/ /\ total \in 0..MaxRows
        /\ \E m \in TableRequests({"users"}) : script = StreamText(<<m>>)
     \/ /\ total = MaxRows
        /\ \E msgs \in LongScripts : script = StreamText(msgs)
  /\ exited = "running"
  /\ stdout = <<>>
  /\ stderr = StartupLog
  /\ Blank

\* the HTTP server, and the requests the clients will send; without
\* credentials it has logged the failure and left with process.exit(1)
InitHttp ==
  /\ mode = "http"
  /\ supabase \in BOOLEAN
  /\ \/ /\ total = MaxRows
        /\ script \in SeqsUpTo(SmallReqs, MaxLines)
     \/ /\ total = MaxRows
        /\ \E r \in PageReqs({"nosuch"}) : script = <<r>>
     \/ /\ total \in 0..MaxRows
        /\ \E r \in PageReqs({"users"}) : script = <<r>>
  /\ exited = IF supabase THEN "running" ELSE "exit1"
  /\ stdout = IF supabase THEN LogLine("Server running on port") \o LogLine("Supabase URL")
              ELSE <<>>
  /\ stderr = IF supabase THEN <<>> ELSE LogLine("Missing Supabase credentials.")
  /\ Blank

Init == InitStdio \/ InitHttp

Next ==
  \/ \E n \in 1..(3 * (MaxLines + 1)) : StdinData(n)
  \/ \E k \in 1..MaxInFlight, outcome \in {"ok", "error", "found", "norows"} :
       StdinResume(k, outcome)
  \/ StdinEnd
  \/ HttpRequest
  \/ \E k \in 1..MaxInFlight, outcome \in {"ok", "error", "found", "norows"} :
       HttpResume(k, outcome)

Spec == Init /\ [][Next]_vars

(* ------------------------------- claims ------------------------------- *)

Range(seq) == {seq[k] : k \in 1..Len(seq)}
SeqBag(seq) == [x \in Range(seq) |-> Cardinality({k \in 1..Len(seq) : seq[k] = x})]

\* the text delivered so far, its complete non-empty lines and its
\* trailing fragment
Received == SubSeq(script, 1, pos)
CompleteLines(text) ==
  LET parts == Split(text)
      trimmed == [k \in 1..(Len(parts) - 1) |-> Trim(parts[k])]
  IN SelectSeq(trimmed, LAMBDA l : l # <<>>)
Fragment(text) == Split(text)[Len(Split(text))]

IsJson(m) == m.text # "invalid"
\* a request jsonrpc-lite accepts: version 2.0, an id, a method name, params
\* that are absent or structured
WellFormedRequest(m) ==
  /\ m.text = "object" /\ m.jsonrpc = "2.0"
  /\ m.id \in ValidIds
  /\ m.method # ABSENT /\ m.method # ""
  /\ m.params.given # "scalar"
Served == Range(served)

\* C1: in the STDIO dispatcher, for every chunking and interleaving, each
\* complete non-empty input line is handled as exactly one message (never
\* twice, and none dropped once no call is in flight) and the trailing
\* fragment is kept in the buffer.
C1_EachLineExactlyOnce ==
  mode = "stdio" =>
    /\ SeqBag(invoked) \sqsubseteq SeqBag(CompleteLines(Received))
    /\ handlers = <<>> =>
         /\ SeqBag(invoked) = SeqBag(CompleteLines(Received))
         /\ inputBuffer = Fragment(Received)

\* C2: a complete line that is not valid JSON is answered with a ParseError
\* (code -32700) response whose id is null.
C2_BadJsonIsParseError ==
  mode = "stdio" =>
    \A e \in Served :
      ~IsJson(JSONparse(e.line)) =>
        /\ e.resp.type = "error"
        /\ e.resp.code = ParseErrorCode
        /\ e.resp.id = NullId

\* C3: a line that is JSON but not a structurally valid JSON-RPC request is
\* answered with an InvalidRequest (code -32600) error, and no method is
\* invoked for it.
C3_InvalidRequest ==
  mode = "stdio" =>
    \A e \in Served :
      LET m == JSONparse(e.line) IN
      (IsJson(m) /\ ~WellFormedRequest(m)) =>
        /\ e.resp.type = "error"
        /\ e.resp.code = InvalidRequestCode
        /\ e.ran = "none"
        /\ \A c \in Range(clientCalls) : c.by # e.line

\* C3 witness: a notification, a wrong version and a missing method have each
\* been answered (one per run; this one is the request without a method)
C3_Witness ==
  /\ mode = "stdio"
  /\ \E e \in Served :
       LET m == JSONparse(e.line) IN
       /\ m.text = "object" /\ m.jsonrpc = "2.0" /\ m.id = "1" /\ m.method = ABSENT
       /\ e.resp.code = InvalidRequestCode

\* C4: a well-formed request whose method is not one of the three registered
\* names, inherited property names included, is answered with MethodNotFound
\* carrying the request's id, and nothing is invoked.
C4_MethodNotFound ==
  mode = "stdio" =>
    \A e \in Served :
      LET m == JSONparse(e.line) IN
      (WellFormedRequest(m) /\ m.method \notin {"listTools", "list_tables", "get_table_data"}) =>
        /\ e.resp.type = "error"
        /\ e.resp.code = MethodNotFoundCode
        /\ e.resp.id = m.id
        /\ e.ran = "none"

\* C5: a well-formed request naming a registered method is answered with its
\* own id: a success response holding what the method returned, or an
\* InternalError (code -32603) response holding the thrown message; only the
\* end of the input ends the dispatcher.
ReturnKind(method) ==
  IF method = "listTools" THEN "tools"
  ELSE IF method = "list_tables" THEN "tables" ELSE "page"
C5_RegisteredMethodAnswered ==
  mode = "stdio" =>
    /\ \A e \in Served :
         LET m == JSONparse(e.line) IN
         (WellFormedRequest(m) /\ m.method \in {"listTools", "list_tables", "get_table_data"}) =>
           /\ e.resp.id = m.id
           /\ e.ran = m.method
           /\ \/ /\ e.resp.type = "success"
                 /\ e.resp.result.k = ReturnKind(m.method)
                 /\ supabase \/ m.method = "listTools"
              \/ /\ e.resp.type = "error"
                 /\ e.resp.code = InternalErrorCode
                 /\ e.resp.data # <<>>
                 /\ ~supabase => e.resp.data = NotInitialized
    /\ exited # "running" => (exited = "exit0" /\ pos = Len(script))

\* C5 witness: a request failed with InternalError under its id and a later
\* line was answered after it
C5_Witness ==
  /\ mode = "stdio" /\ exited = "running"
  /\ \E k \in 1..Len(served) :
       /\ served[k].resp.code = InternalErrorCode
       /\ served[k].resp.id = "2"
       /\ k < Len(served)
       /\ served[Len(served)].resp.type = "success"

\* C6: in STDIO mode standard output holds JSON-RPC response objects, each
\* followed by exactly one newline, and nothing else; the startup
\* diagnostics are on standard error.
C6_StdoutFraming ==
  mode = "stdio" =>
    /\ Len(stdout) % 2 = 0
    /\ \A k \in 1..Len(stdout) :
         IF k % 2 = 1
         THEN /\ stdout[k].t = "json"
              /\ stdout[k].v.jsonrpc = "2.0"
              /\ stdout[k].v.type \in {"success", "error"}
         ELSE stdout[k].t = "nl"
    /\ Len(stderr) >= 2
    /\ stderr[1].text = "Supabase MCP STDIO daemon initialized"

C6_Witness ==
  /\ mode = "stdio"
  /\ Len(stdout) >= 4
  /\ stdout[1].v.type = "error" /\ stdout[3].v.type = "success"

\* C7: listTools returns exactly the two tool descriptors list_tables and
\* get_table_data, calls the backing client never, and succeeds in every
\* state, also without a backing client.
C7_ListTools ==
  mode = "stdio" =>
    /\ \A e \in Served :
         LET m == JSONparse(e.line) IN
         (WellFormedRequest(m) /\ m.method = "listTools") =>
           /\ e.resp.type = "success"
           /\ e.resp.id = m.id
           /\ Len(e.resp.result.tools) = 2
           /\ e.resp.result.tools[1].name = "list_tables"
           /\ e.resp.result.tools[2].name = "get_table_data"
           /\ \A c \in Range(clientCalls) : c.by # e.line
    /\ \A h \in Range(handlers) : h.req.method # "listTools"

C7_Witness ==
  /\ mode = "stdio" /\ ~supabase
  /\ \E e \in Served :
       /\ JSONparse(e.line).method = "listTools"
       /\ e.resp.type = "success"
       /\ Len(e.resp.result.tools) = 2

\* the raw limit and page of the request a handler serves
RawLimitOf(req) == IF mode = "stdio" THEN req.params.limit ELSE req.limit
RawPageOf(req) == IF mode = "stdio" THEN req.params.page ELSE req.page
IsDataHandler(h) == h.call.op \in {"exists", "fetch"}
AbsentNonNumericOrNegative(raw) == raw.k \in {"absent", "text"} \/ raw.n < 0

\* C8: on both transports a limit or page that is absent, non-numeric or
\* negative is replaced by the default (10, 0): the limit used is always > 0
\* and the page used always >= 0.
C8_DefaultsForBadInput ==
  \A h \in Range(handlers) :
    IsDataHandler(h) =>
      /\ AbsentNonNumericOrNegative(RawLimitOf(h.req)) => h.limit = 10
      /\ AbsentNonNumericOrNegative(RawPageOf(h.req)) => h.page = 0
      /\ h.limit > 0
      /\ h.page >= 0

\* the successful table-data responses of either transport, each with the
\* raw limit and page of its request
PageResults ==
  IF mode = "stdio"
  THEN { [l |-> JSONparse(e.line).params.limit, p |-> JSONparse(e.line).params.page,
          r |-> e.resp.result] :
           e \in {x \in Served : x.resp.type = "success" /\ x.resp.result.k = "page"} }
  ELSE { [l |-> e.req.limit, p |-> e.req.page, r |-> e.body.data] :
           e \in {x \in Range(httpOut) : x.status = 200 /\ x.body.data.k = "page"} }
NonNegativeInteger(raw) == raw.k = "int" /\ raw.n >= 0
\* n = ceil(a / b) for b > 0
IsCeiling(n, a, b) == n * b >= a /\ (n - 1) * b < a

\* C9: a successful table-data response for integer limit >= 0 and page >= 0
\* reports pages = ceil(total / limit) for the limit it reports (0 pages for
\* 0 rows) and holds at most limit rows; 25 rows, limit 10, page 2 give 5
\* rows and {total 25, page 2, limit 10, pages 3}.
C9_Pagination ==
  \A x \in PageResults :
    (NonNegativeInteger(x.l) /\ NonNegativeInteger(x.p)) =>
      LET pg == x.r.pagination IN
      /\ pg.total = total
      /\ pg.limit > 0
      /\ IsCeiling(pg.pages, pg.total, pg.limit)
      /\ pg.total = 0 => pg.pages = 0
      /\ Len(x.r.rows) <= pg.limit
      /\ (total = 25 /\ x.l.n = 10 /\ x.p.n = 2) =>
           /\ Len(x.r.rows) = 5
           /\ pg = [total |-> 25, page |-> 2, limit |-> 10, pages |-> 3]

C9_Witness ==
  /\ mode = "http" /\ total = 25
  /\ \E x \in PageResults :
       /\ x.l = Raw("int", 10) /\ x.p = Raw("int", 2)
       /\ Len(x.r.rows) = 5
       /\ x.r.pagination.pages = 3

\* C10: the data fetch asks the backing client for exactly the inclusive row
\* range [page*limit, page*limit + limit - 1] of the normalized limit and
\* page, with an exact count; with default parameters that is [0, 9].
C10_FetchRange ==
  \A h \in Range(handlers) :
    h.call.op = "fetch" =>
      /\ h.call.from = h.page * h.limit
      /\ h.call.to = h.page * h.limit + h.limit - 1
      /\ h.call.count = "exact"
      /\ \E c \in Range(clientCalls) : c.call = h.call
      /\ (RawLimitOf(h.req) = RawAbsent /\ RawPageOf(h.req) = RawAbsent) =>
           (h.call.from = 0 /\ h.call.to = 9)

C10_Witness ==
  /\ mode = "stdio"
  /\ \E h \in Range(handlers) :
       /\ h.call.op = "fetch"
       /\ RawLimitOf(h.req) = Raw("int", 3) /\ RawPageOf(h.req) = Raw("int", 2)
       /\ h.call.from = 6 /\ h.call.to = 8

DataRoute == "/api/data/:projectId/:tableName"
\* the get_table_data requests answered on the STDIO transport, and the
\* requests of the data route answered on the HTTP transport
IsTableRequest(m) == WellFormedRequest(m) /\ m.method = "get_table_data"
DataReplies == {e \in Range(httpOut) : e.req.route = DataRoute /\ e.req.tableName # ""}
NotFoundText(table) == <<"Table '", table, "' not found">>

\* C11: a request for a table that is not in the public schema is answered
\* not found on both transports (HTTP 404 with success false; a JSON-RPC
\* error with the id of the request), no data fetch is ever issued for such
\* a table, and the server stays up for the requests that follow.
C11_NotFound ==
  /\ (mode = "stdio" /\ supabase) =>
       \A e \in Served :
         LET m == JSONparse(e.line) IN
         (IsTableRequest(m) /\ m.params.table_name \notin PublicTables \cup {ABSENT}) =>
           /\ e.resp.type = "error"
           /\ e.resp.id = m.id
           /\ e.resp.data = FetchError(m.params.table_name, NotFoundText(m.params.table_name))
  /\ mode = "http" =>
       \A e \in DataReplies :
         e.req.tableName \notin PublicTables =>
           /\ e.status = 404
           /\ e.body.shape = "envelope" /\ e.body.success = FALSE
           /\ e.body.message = NotFoundText(e.req.tableName)
  /\ \A c \in Range(clientCalls) : c.call.op = "fetch" => c.call.table \in PublicTables
  /\ supabase => (exited = "running" \/ (mode = "stdio" /\ pos = Len(script)))

\* C11 witness: GET /api/data/p1/nosuch?limit=3&page=0 was answered 404 and a
\* later request was answered 200
C11_Witness ==
  /\ mode = "http" /\ exited = "running"
  /\ \E k \in 1..Len(httpOut) :
       /\ httpOut[k].req = GetData("nosuch", Raw("int", 3), Raw("int", 0))
       /\ httpOut[k].status = 404 /\ httpOut[k].body.success = FALSE
       /\ k < Len(httpOut)
       /\ httpOut[Len(httpOut)].status = 200

\* the existence check of the request failed in the backing client (network,
\* authentication), as against answering that no row matches
ExistenceCheckFailed(e) == Len(e.answers) >= 1 /\ e.answers[1] = "error"

\* C12: when the existence query itself fails, the request is reported as an
\* upstream error and not as not found: the HTTP data route answers 500, not
\* 404, and on neither transport does the error say the table was not found.
C12_UpstreamDistinct ==
  /\ mode = "http" =>
       \A e \in DataReplies :
         ExistenceCheckFailed(e) =>
           /\ e.status = 500
           /\ e.body.message # NotFoundText(e.req.tableName)
  /\ mode = "stdio" =>
       \A e \in Served :
         LET m == JSONparse(e.line) IN
         (IsTableRequest(m) /\ ExistenceCheckFailed(e)) =>
           e.resp.data # FetchError(m.params.table_name, NotFoundText(m.params.table_name))

MissingOrEmpty(name) == name \in {ABSENT, ""}

\* C13: a get_table_data request whose table name is missing or empty is
\* rejected by validation (HTTP status 400) before any call of the backing
\* client is made for it.
C13_ValidationFirst ==
  /\ mode = "stdio" =>
       /\ \A c \in Range(clientCalls) :
            IsTableRequest(JSONparse(c.by)) =>
              ~MissingOrEmpty(JSONparse(c.by).params.table_name)
       /\ \A e \in Served :
            (IsTableRequest(JSONparse(e.line))
               /\ MissingOrEmpty(JSONparse(e.line).params.table_name)) =>
              (e.resp.type = "error" /\ e.answers = <<>>)
  /\ mode = "http" =>
       /\ \A c \in Range(clientCalls) :
            c.by.route = DataRoute => ~MissingOrEmpty(c.by.tableName)
       /\ \A e \in Range(httpOut) :
            (e.req.route = DataRoute /\ MissingOrEmpty(e.req.tableName)) => e.status = 400

\* C14: on both transports a process started without the URL or the key of
\* the backing service handles no request and produces no per-request error:
\* it ends with a non-zero exit status before it accepts a request.
C14_FatalStartup ==
  ~supabase =>
    /\ invoked = <<>> /\ served = <<>> /\ httpOut = <<>>
    /\ handlers = <<>>
    /\ exited # "exit0"

Routes == {"/", "/api/tables/:projectId", DataRoute}

\* C15: every HTTP response body, on every route, on unmatched paths and on
\* failures raised in middleware, is the envelope {success, data, message,
\* timestamp}; success is true exactly when the status is 200; an unmatched
\* path is answered 404 and the only other statuses are 404 and 500.
C15_OneEnvelope ==
  mode = "http" =>
    \A e \in Range(httpOut) :
      /\ e.body.shape = "envelope"
      /\ e.body.success <=> e.status = 200
      /\ e.status \in {200, 404, 500}
      /\ (e.req.route \notin Routes /\ e.req.body # "malformed") => e.status = 404

ServedLines == [k \in 1..Len(served) |-> served[k].line]

\* C16: when the process has exited on end-of-input, every request line that
\* was completely received has had its response written, also the lines
\* whose method waits on the backing client, and the exit status is 0.
C16_AnsweredBeforeExit ==
  (mode = "stdio" /\ exited # "running") =>
    /\ exited = "exit0"
    /\ handlers = <<>>
    /\ SeqBag(CompleteLines(Received)) \sqsubseteq SeqBag(ServedLines)

\* the complete non-empty lines that the callback of handler h has not
\* reached: they come after the line it waits on
LinesBehind(h) ==
  {Trim(h.lines[j]) : j \in (h.i + 1)..(Len(h.lines) - 1)} \ {<<>>}

\* C17 as stated: the dispatcher does not wait for one request before it
\* handles the next buffered line, so while the call of a line is in flight
\* the lines buffered behind it have been handed to their methods.
C17_DoesNotBlock ==
  mode = "stdio" =>
    \A h \in Range(handlers) : LinesBehind(h) \subseteq Range(invoked)

\* C17, amended: one run of the 'data' callback handles its lines one at a
\* time and waits for the call of a line before it goes to the next: every
\* line handed to a method and not yet answered is the one line some run
\* waits on, and the calls in flight belong to runs for different chunks.
C17_OneLineAtATime ==
  mode = "stdio" =>
    /\ \A j, k \in 1..Len(handlers) : j # k => handlers[j].chunk # handlers[k].chunk
    /\ Len(invoked) = Len(served) + Len(handlers)
    /\ \A h \in Range(handlers) : h.i < Len(h.lines) /\ h.line = Trim(h.lines[h.i])

\* C17 witness: list_tables and listTools came in one chunk; list_tables is
\* in flight and listTools, behind it, has not been handed to its method
C17_Witness ==
  /\ mode = "stdio" /\ Len(handlers) = 1
  /\ LET h == handlers[1] IN
       /\ h.chunk = Chunk(0, pos) /\ h.i = 1
       /\ h.req.method = "list_tables"
       /\ LinesBehind(h) = {LineText(Request("1", "listTools", NoParams))}
       /\ invoked = <<h.line>>

\* where a line first appears among the complete lines received, and where
\* its first response appears among the responses written
InputLines == CompleteLines(Received)
FirstIn(seq, x) == CHOOSE k \in 1..Len(seq) : seq[k] = x /\ \A j \in 1..(k - 1) : seq[j] # x

\* C18: responses are written in the order in which their request lines
\* appear in the input, whatever the chunking and the order in which the
\* backing client answers: of two answered lines, the one that comes first
\* in the input is answered first.
C18_ResponsesInInputOrder ==
  mode = "stdio" =>
    \A x, y \in Range(InputLines) \cap Range(ServedLines) :
      FirstIn(InputLines, x) < FirstIn(InputLines, y) =>
        FirstIn(ServedLines, x) < FirstIn(ServedLines, y)

Occurrences(seq, x) == Cardinality({k \in 1..Len(seq) : seq[k] = x})
CallsFor(by, op) ==
  Cardinality({k \in 1..Len(clientCalls) :
                 clientCalls[k].by = by /\ clientCalls[k].call.op = op})
\* the table requests received so far, as the backing client's log names them
TableRequestsReceived ==
  IF mode = "stdio"
  THEN SelectSeq(InputLines, LAMBDA l : IsTableRequest(JSONparse(l)))
  ELSE SelectSeq(Received, LAMBDA r : r.route = DataRoute /\ r.tableName # "")

\* C19: each get_table_data request, on either transport, issues at most one
\* existence query and at most one data fetch; the fetch is issued only
\* after the existence query returned a match; a failed call is reported
\* without being issued again.
C19_NoRetries ==
  /\ \A x \in Range(TableRequestsReceived) :
       /\ CallsFor(x, "exists") <= Occurrences(TableRequestsReceived, x)
       /\ CallsFor(x, "fetch") <= Occurrences(TableRequestsReceived, x)
  /\ \A h \in Range(handlers) : h.call.op = "fetch" => h.answers = <<"found">>
  /\ \A k \in 1..Len(clientCalls) :
       clientCalls[k].call.op = "fetch" =>
         \E j \in 1..(k - 1) :
           clientCalls[j].by = clientCalls[k].by /\ clientCalls[j].call.op = "exists"

====
